---- MODULE Spec2Model ----
(***************************************************************************)
(* Model of src/llm_screener.py: the Streamlit chat front-end that relays  *)
(* a patient's answers to a language model, interprets each reply as a     *)
(* question (process_llm_response) and finally asks for a summary.         *)
(*                                                                         *)
(* A text is a sequence of tokens.  A token is a prose word, a brace, or   *)
(* one whole member ("key": value) of a JSON object.  json_loads is a      *)
(* parser over such token sequences.                                       *)
(*                                                                         *)
(* One action is one user interaction: the script run it triggers,         *)
(* together with the model call and the reply processing inside that run.  *)
(***************************************************************************)
EXTENDS Integers, Sequences, FiniteSets, TLC

VARIABLES
    messages,                    \* st.session_state.messages
    current_llm_question_data,   \* st.session_state.current_llm_question_data
    assessment_phase_complete,   \* st.session_state.assessment_phase_complete
    summary_generated,           \* st.session_state.summary_generated
    summary_text,                \* st.session_state.summary_text
    OPENROUTER_API_KEY_SECRET,   \* TRUE iff the API key secret is non-empty
    exception,                   \* the last script run ended by an uncaught exception
    event,                       \* the user interaction that started the last script run
    call                         \* the model call issued by the last script run

vars == <<messages, current_llm_question_data, assessment_phase_complete,
          summary_generated, summary_text, OPENROUTER_API_KEY_SECRET,
          exception, event, call>>

-----------------------------------------------------------------------------
(* Bounds of the model. *)

\* The transcript grows to at most this many messages.
MaxMsgs == 5

\* The longest reply body (between an optional prose prefix and suffix)
\* enumerated for the interpreter.
MaxBody == 4

-----------------------------------------------------------------------------
(* Tokens and fixed texts. *)

LBRACE == "{"
RBRACE == "}"
QT == "\"question_text\": \"How old are you?\""
IT_TEXT == "\"input_type\": \"text\""
IT_OPTIONS == "\"input_type\": \"options\""
IT_DISPLAY == "\"input_type\": \"text_display_only\""
IT_NUMBER == "\"input_type\": \"number\""
OPTS == "\"options\": [Aching, Other (please specify)]"
MULTI == "\"allow_multiple_selections\": true"
WORD == "Sure, here you go."
SCALAR == "42"

MemberTokens == {QT, IT_TEXT, IT_OPTIONS, IT_DISPLAY, IT_NUMBER, OPTS, MULTI}

QuestionText == <<"How old are you?">>

SYSTEM_PROMPT == <<"SYSTEM_PROMPT">>
SUMMARY_SYSTEM_PROMPT == <<"You are an AI assistant specialized in summarizing patient conversations">>
GREETING_FALLBACK == <<"Hello! I'm ready to start. To begin, could you please tell me your current age?">>
CLOSING_MESSAGE == <<"Understood. When you're ready, please click the 'Generate Doctor's Summary' button.">>
END_MARKER == "END ASSESSMENT"

OptionList ==
    << [value |-> <<"Aching">>, example |-> <<"like a dull soreness">>],
       [value |-> <<"Other (please specify)">>, example |-> <<"If none of these quite fit.">>] >>

None == [none |-> TRUE]

Msg(role, content) == [role |-> role, content |-> content]

Last(s) == s[Len(s)]

-----------------------------------------------------------------------------
(* json.loads over token sequences. *)

MemberKey(tok) ==
    CASE tok = QT -> "question_text"
      [] tok \in {IT_TEXT, IT_OPTIONS, IT_DISPLAY, IT_NUMBER} -> "input_type"
      [] tok = OPTS -> "options"
      [] tok = MULTI -> "allow_multiple_selections"

MemberValue(tok) ==
    CASE tok = QT -> QuestionText
      [] tok = IT_TEXT -> "text"
      [] tok = IT_OPTIONS -> "options"
      [] tok = IT_DISPLAY -> "text_display_only"
      [] tok = IT_NUMBER -> "number"
      [] tok = OPTS -> OptionList
      [] tok = MULTI -> TRUE

\* The dict of a member list: a repeated key keeps its last value.
ObjectOf(members) ==
    LET keys == {MemberKey(members[i]) : i \in 1..Len(members)}
        last(k) == CHOOSE i \in 1..Len(members) :
                      /\ MemberKey(members[i]) = k
                      /\ \A j \in (i+1)..Len(members) : MemberKey(members[j]) # k
    IN [k \in keys |-> MemberValue(members[last(k)])]

\* ok: the text decodes; dict: it decodes to an object; data: the object.
json_loads(text) ==
    IF text = <<SCALAR>>
    THEN [ok |-> TRUE, dict |-> FALSE, data |-> None]
    ELSE IF /\ Len(text) >= 2
            /\ text[1] = LBRACE
            /\ text[Len(text)] = RBRACE
            /\ \A i \in 2..(Len(text)-1) : text[i] \in MemberTokens
    THEN [ok |-> TRUE, dict |-> TRUE,
          data |-> ObjectOf(SubSeq(text, 2, Len(text)-1))]
    ELSE [ok |-> FALSE, dict |-> FALSE, data |-> None]

-----------------------------------------------------------------------------
(* The session state as one record, as the handlers read and write it. *)

NoCall == [kind |-> "none", messages |-> <<>>, pending |-> None,
           complete |-> FALSE, result |-> [none |-> TRUE, text |-> <<>>]]

NoEvent == [kind |-> "rerun"]

InitialState ==
    [messages |-> <<>>,
     current_llm_question_data |-> None,
     assessment_phase_complete |-> FALSE,
     summary_generated |-> FALSE,
     summary_text |-> <<>>,
     exception |-> FALSE,
     call |-> NoCall]

SS ==
    [messages |-> messages,
     current_llm_question_data |-> current_llm_question_data,
     assessment_phase_complete |-> assessment_phase_complete,
     summary_generated |-> summary_generated,
     summary_text |-> summary_text,
     exception |-> FALSE,
     call |-> NoCall]

\* What the upstream endpoint answers: an error, or a text.
Upstream(texts) ==
    {[error |-> TRUE, text |-> <<>>]} \cup {[error |-> FALSE, text |-> t] : t \in texts}

\* Returns None without a key or on a request/parsing error, else the content.
get_llm_response(conversation_history, up) ==
    IF ~OPENROUTER_API_KEY_SECRET \/ up.error
    THEN [none |-> TRUE, text |-> <<>>]
    ELSE [none |-> FALSE, text |-> up.text]

\* Python truthiness of the returned value: None and "" are falsy.
Truthy(r) == ~r.none /\ r.text # <<>>

\* The session with a call recorded: its kind, the message list sent, the
\* pending question and the completion flag at the time of the call.
Called(ss, kind, history, r) ==
    [ss EXCEPT !.call = [kind |-> kind, messages |-> history,
                         pending |-> ss.current_llm_question_data,
                         complete |-> ss.assessment_phase_complete,
                         result |-> r]]

-----------------------------------------------------------------------------
(* process_llm_response *)

FallbackQuestion(response_text) ==
    [question_text |-> response_text, input_type |-> "text"]

\* Mutant: the assistant message replaces the transcript instead of being
\* appended to it.
process_llm_response_assigns(ss, response_text) ==
    LET d == json_loads(response_text)
        structured == d.ok /\ d.dict /\ "input_type" \in DOMAIN d.data
        data == IF structured THEN d.data ELSE FallbackQuestion(response_text)
        complete == IF structured /\ d.data["input_type"] = "text_display_only"
                    THEN TRUE ELSE ss.assessment_phase_complete
        keyError == "question_text" \notin DOMAIN data
    IN [ss EXCEPT
          !.current_llm_question_data = data,
          !.assessment_phase_complete = complete,
          !.messages = IF keyError THEN @
                       ELSE <<Msg("assistant", data["question_text"])>>,
          !.exception = keyError]

\* Mutant: the isinstance(data, dict) test is missing, so a reply that
\* decodes to a non-object raises on the membership test.
process_llm_response_unchecked(ss, response_text) ==
    LET d == json_loads(response_text)
        typeError == d.ok /\ ~d.dict
        structured == d.ok /\ d.dict /\ "input_type" \in DOMAIN d.data
        data == IF structured THEN d.data ELSE FallbackQuestion(response_text)
        complete == IF structured /\ d.data["input_type"] = "text_display_only"
                    THEN TRUE ELSE ss.assessment_phase_complete
        keyError == "question_text" \notin DOMAIN data
    IN IF typeError
       THEN [ss EXCEPT !.current_llm_question_data = None, !.exception = TRUE]
       ELSE [ss EXCEPT
               !.current_llm_question_data = data,
               !.assessment_phase_complete = complete,
               !.messages = IF keyError THEN @
                            ELSE Append(@, Msg("assistant", data["question_text"])),
               !.exception = keyError]

\* Mutant: a text_display_only reply does not set assessment_phase_complete.
process_llm_response_noflag(ss, response_text) ==
    LET d == json_loads(response_text)
        structured == d.ok /\ d.dict /\ "input_type" \in DOMAIN d.data
        data == IF structured THEN d.data ELSE FallbackQuestion(response_text)
        keyError == "question_text" \notin DOMAIN data
    IN [ss EXCEPT
          !.current_llm_question_data = data,
          !.messages = IF keyError THEN @
                       ELSE Append(@, Msg("assistant", data["question_text"])),
          !.exception = keyError]

process_llm_response(ss, response_text) ==
    LET d == json_loads(response_text)
        structured == d.ok /\ d.dict /\ "input_type" \in DOMAIN d.data
        data == IF structured THEN d.data ELSE FallbackQuestion(response_text)
        complete == IF structured /\ d.data["input_type"] = "text_display_only"
                    THEN TRUE ELSE ss.assessment_phase_complete
        keyError == "question_text" \notin DOMAIN data
    IN [ss EXCEPT
          !.current_llm_question_data = data,
          !.assessment_phase_complete = complete,
          !.messages = IF keyError THEN @
                       ELSE Append(@, Msg("assistant", data["question_text"])),
          !.exception = keyError]

-----------------------------------------------------------------------------
(* Requests sent to the model. *)

SystemMsg == Msg("system", SYSTEM_PROMPT)

\* conversation_history of the initial greeting call.
GreetingRequest == <<SystemMsg>>

\* Mutant: the per-turn request leaves the system prompt out.
TurnRequest_nosystem(msgs) == msgs

\* conversation_history of a per-turn call: the system prompt, then the transcript.
TurnRequest(msgs) == <<SystemMsg>> \o msgs

RoleLabel(role) ==
    CASE role = "user" -> "User:"
      [] role = "assistant" -> "Assistant:"
      [] role = "system" -> "System:"

\* "\n".join(f"{msg['role'].capitalize()}: {msg['content']}" for msg in messages)
RECURSIVE conversation_for_summary(_)
conversation_for_summary(msgs) ==
    IF msgs = <<>> THEN <<>>
    ELSE LET line == <<RoleLabel(msgs[1].role)>> \o msgs[1].content
         IN IF Len(msgs) = 1 THEN line
            ELSE line \o <<"\n">> \o conversation_for_summary(Tail(msgs))

SummaryRequest(msgs) ==
    << Msg("system", SUMMARY_SYSTEM_PROMPT),
       Msg("user", <<"SUMMARIZATION_PROMPT_TEMPLATE(">>
                     \o conversation_for_summary(msgs) \o <<")">>) >>

-----------------------------------------------------------------------------
(* Initial greeting. *)

initial_greeting(ss, up) ==
    LET r == get_llm_response(GreetingRequest, up)
        c == Called(ss, "greeting", GreetingRequest, r)
    IN IF Truthy(r)
       THEN process_llm_response(c, r.text)
       ELSE [c EXCEPT
               !.messages = Append(@, Msg("assistant", GREETING_FALLBACK)),
               !.current_llm_question_data = FallbackQuestion(GREETING_FALLBACK)]

-----------------------------------------------------------------------------
(* The call for the next question after a user message was appended. *)

\* Mutant: a failed call takes the user's message back out of the transcript.
next_question_rollback(ss, up) ==
    LET history == TurnRequest(ss.messages)
        r == get_llm_response(history, up)
        c == Called(ss, "turn", history, r)
    IN IF Truthy(r) THEN process_llm_response(c, r.text)
       ELSE [c EXCEPT !.messages = SubSeq(@, 1, Len(@) - 1)]

next_question(ss, up) ==
    LET history == TurnRequest(ss.messages)
        r == get_llm_response(history, up)
        c == Called(ss, "turn", history, r)
    IN IF Truthy(r) THEN process_llm_response(c, r.text) ELSE c

-----------------------------------------------------------------------------
(* Text input. *)

\* Fewest transcript messages, the submitted one included, that a manual end
\* must exceed.
MIN_MESSAGES_FOR_END == 3

\* str.upper on the tokens a prompt is made of.
Upper(tok) ==
    CASE tok = "end assessment" -> END_MARKER
      [] tok = "I am 42" -> "I AM 42"
      [] OTHER -> tok

\* "END ASSESSMENT" in prompt.upper()
ContainsEndMarker(prompt) == \E i \in 1..Len(prompt) : Upper(prompt[i]) = END_MARKER

\* Mutant: a manual end still asks the model for the next question.
text_chat_input_asks(ss, prompt, up) ==
    LET s1 == [ss EXCEPT !.messages = Append(@, Msg("user", prompt)),
                         !.current_llm_question_data = None]
    IN IF ContainsEndMarker(prompt) /\ Len(s1.messages) > MIN_MESSAGES_FOR_END
       THEN next_question([s1 EXCEPT !.assessment_phase_complete = TRUE], up)
       ELSE next_question(s1, up)

text_chat_input(ss, prompt, up) ==
    LET s1 == [ss EXCEPT !.messages = Append(@, Msg("user", prompt)),
                         !.current_llm_question_data = None]
    IN IF ContainsEndMarker(prompt) /\ Len(s1.messages) > MIN_MESSAGES_FOR_END
       THEN [s1 EXCEPT
               !.assessment_phase_complete = TRUE,
               !.messages = Append(@, Msg("assistant", CLOSING_MESSAGE))]
       ELSE next_question(s1, up)

-----------------------------------------------------------------------------
(* Options form. *)

options_data(q) == IF "options" \in DOMAIN q THEN q["options"] ELSE <<>>

allow_multiple(q) ==
    IF "allow_multiple_selections" \in DOMAIN q
    THEN q["allow_multiple_selections"] ELSE FALSE

E_G == "(e.g.,"

formatted_option(opt) ==
    IF opt.example # <<>> THEN opt.value \o <<E_G>> \o opt.example \o <<")">>
    ELSE opt.value

formatted_options(q) ==
    [i \in 1..Len(options_data(q)) |-> formatted_option(options_data(q)[i])]

\* str.lower on the tokens of an option.
Lower(tok) ==
    CASE tok = "Other (please specify)" -> "other (please specify)"
      [] tok = "Aching" -> "aching"
      [] OTHER -> tok

\* "other (please specify)" in text.lower()
ContainsOtherSpecify(text) ==
    \E i \in 1..Len(text) : Lower(text[i]) = "other (please specify)"

\* "other" in text.lower()
ContainsOther(text) ==
    \E i \in 1..Len(text) : Lower(text[i]) \in {"other (please specify)", "other"}

other_option_present(q) ==
    \E i \in 1..Len(options_data(q)) : ContainsOtherSpecify(options_data(q)[i].value)

\* raw_sel.split(" (e.g.,")[0]
original_value(raw_sel) ==
    IF \E i \in 1..Len(raw_sel) : raw_sel[i] = E_G
    THEN LET cut == CHOOSE i \in 1..Len(raw_sel) :
                       /\ raw_sel[i] = E_G
                       /\ \A j \in 1..(i-1) : raw_sel[j] # E_G
         IN SubSeq(raw_sel, 1, cut - 1)
    ELSE raw_sel

\* Mutant: the typed text never replaces the 'Other' label.
user_response_parts_label(raw_selections, other_text) ==
    LET parts == [i \in 1..Len(raw_selections) |->
                    original_value(raw_selections[i])]
    IN IF parts = <<>> /\ other_text # <<>>
       THEN << <<"Other:">> \o other_text >>
       ELSE parts

user_response_parts(raw_selections, other_text) ==
    LET parts == [i \in 1..Len(raw_selections) |->
                    LET v == original_value(raw_selections[i])
                    IN IF ContainsOtherSpecify(v) /\ other_text # <<>>
                       THEN <<"Other:">> \o other_text
                       ELSE v]
    IN IF parts = <<>> /\ other_text # <<>>
       THEN << <<"Other:">> \o other_text >>
       ELSE parts

UNSPECIFIED_MARKER == "Selected 'Other' but did not specify."

\* "; ".join(parts)
RECURSIVE Join(_)
Join(parts) ==
    IF parts = <<>> THEN <<>>
    ELSE IF Len(parts) = 1 THEN parts[1]
    ELSE parts[1] \o <<";">> \o Join(Tail(parts))

user_response_full(q, raw_selections, other_text) ==
    LET parts == user_response_parts(raw_selections, other_text)
    IN IF /\ parts = <<>>
          /\ other_text = <<>>
          /\ other_option_present(q)
          /\ \E i \in 1..Len(raw_selections) : ContainsOther(raw_selections[i])
       THEN <<UNSPECIFIED_MARKER>>
       ELSE IF parts # <<>> THEN Join(parts)
       ELSE <<"No specific option selected">>

\* Mutant: the request is sent before the question is cleared.
options_form_late_clear(ss, raw_selections, other_text, up) ==
    LET q == ss.current_llm_question_data
        s1 == [ss EXCEPT
                 !.messages = Append(@, Msg("user",
                                 user_response_full(q, raw_selections, other_text)))]
        s2 == next_question(s1, up)
    IN IF Truthy(s2.call.result) THEN s2
       ELSE [s2 EXCEPT !.current_llm_question_data = None]

options_form(ss, raw_selections, other_text, up) ==
    LET q == ss.current_llm_question_data
        s1 == [ss EXCEPT
                 !.messages = Append(@, Msg("user",
                                 user_response_full(q, raw_selections, other_text))),
                 !.current_llm_question_data = None]
    IN next_question(s1, up)

-----------------------------------------------------------------------------
(* Generate Summary button. *)

\* Mutant: a failed summary request stores an error text as the summary.
generate_summary_stores_error(ss, up) ==
    LET payload == SummaryRequest(ss.messages)
        r == get_llm_response(payload, up)
        c == Called(ss, "summary", payload, r)
    IN IF Truthy(r)
       THEN [c EXCEPT !.summary_text = r.text, !.summary_generated = TRUE]
       ELSE [c EXCEPT !.summary_text = <<"Could not generate the summary.">>]

\* Mutant: the summary flag is set whatever the summary request returned.
generate_summary_unchecked(ss, up) ==
    LET payload == SummaryRequest(ss.messages)
        r == get_llm_response(payload, up)
        c == Called(ss, "summary", payload, r)
    IN [c EXCEPT !.summary_text = IF Truthy(r) THEN r.text ELSE <<>>,
                 !.summary_generated = TRUE]

\* Mutant: a failed summary request sends the session back to gathering.
generate_summary_reopens(ss, up) ==
    LET payload == SummaryRequest(ss.messages)
        r == get_llm_response(payload, up)
        c == Called(ss, "summary", payload, r)
    IN IF Truthy(r)
       THEN [c EXCEPT !.summary_text = r.text, !.summary_generated = TRUE]
       ELSE [c EXCEPT !.assessment_phase_complete = FALSE]

generate_summary(ss, up) ==
    LET payload == SummaryRequest(ss.messages)
        r == get_llm_response(payload, up)
        c == Called(ss, "summary", payload, r)
    IN IF Truthy(r)
       THEN [c EXCEPT !.summary_text = r.text, !.summary_generated = TRUE]
       ELSE c

-----------------------------------------------------------------------------
(* One run of the script, top to bottom, for one user interaction. *)

KeyConfigured == OPENROUTER_API_KEY_SECRET

\* The input section is entered (line 209).
InputSection(ss) ==
    /\ KeyConfigured
    /\ ~ss.assessment_phase_complete
    /\ ~ss.summary_generated

OptionsBranch(ss) ==
    /\ InputSection(ss)
    /\ ss.current_llm_question_data # None
    /\ ss.current_llm_question_data["input_type"] = "options"

TextBranch(ss) ==
    /\ InputSection(ss)
    /\ ss.current_llm_question_data # None
    /\ ss.current_llm_question_data["input_type"] = "text"

\* Mutant: the summary section does not test summary_generated.
SummarySection_again(ss) ==
    /\ ss.assessment_phase_complete
    /\ KeyConfigured

SummarySection(ss) ==
    /\ ss.assessment_phase_complete
    /\ ~ss.summary_generated
    /\ KeyConfigured

\* The widgets a run on state ss puts on the page.  No widget is reached
\* while the transcript is empty and a key is set: the greeting block
\* reruns the script first.
OptionsFormRendered(ss) ==
    /\ ss.messages # <<>>
    /\ OptionsBranch(ss)
    /\ "question_text" \in DOMAIN ss.current_llm_question_data

TextInputRendered(ss) == ss.messages # <<>> /\ TextBranch(ss)

SummaryButtonRendered(ss) == ss.messages # <<>> /\ SummarySection(ss)

script(ss, ev, up) ==
    IF ss.messages = <<>> /\ KeyConfigured
    THEN initial_greeting(ss, up)
    ELSE IF OptionsBranch(ss)
    THEN IF "question_text" \notin DOMAIN ss.current_llm_question_data
         THEN [ss EXCEPT !.exception = TRUE]
         ELSE IF ev.kind = "options"
         THEN options_form(ss, ev.selections, ev.other_text, up)
         ELSE ss
    ELSE IF TextBranch(ss) /\ ev.kind = "text"
    THEN text_chat_input(ss, ev.prompt, up)
    ELSE IF SummarySection(ss) /\ ev.kind = "summary"
    THEN generate_summary(ss, up)
    ELSE ss

\* "Clear Chat & Restart Assessment": session_state.clear(), then the rerun
\* initialises the defaults and greets again.
clear_chat(up) == script(InitialState, NoEvent, up)

-----------------------------------------------------------------------------
(* Inputs. *)

\* Replies the model gives to a greeting or per-turn request.
Replies ==
    { <<WORD>>,
      <<LBRACE, QT, IT_TEXT, RBRACE>>,
      <<LBRACE, QT, IT_OPTIONS, OPTS, MULTI, RBRACE>>,
      <<LBRACE, QT, IT_OPTIONS, OPTS, RBRACE>>,
      <<LBRACE, QT, IT_DISPLAY, RBRACE>>,
      <<LBRACE, QT, IT_NUMBER, RBRACE>>,
      <<LBRACE, QT, RBRACE>>,
      <<LBRACE, IT_TEXT, RBRACE>>,
      <<LBRACE, IT_DISPLAY, RBRACE>>,
      <<WORD, LBRACE, QT, IT_TEXT, RBRACE>>,
      <<>> }

\* Replies to the summary request.
SummaryReplies == { <<"Patient Demographics: ...">>, <<>> }

\* What the user types into the chat input (never empty).
Prompts == { <<"I am 42">>, <<"end assessment">> }

\* What the user types into the "If 'Other', please specify" field.
OtherTexts == { <<>>, <<"Tingling">> }

\* Sequences without repetition over the set S.
Arrangements(S) ==
    {s \in UNION {[1..n -> S] : n \in 0..Cardinality(S)} :
        \A i, j \in 1..Len(s) : i # j => s[i] # s[j]}

\* What the form lets the user select for question q.
SelectionChoices(q) ==
    LET shown == {formatted_options(q)[i] : i \in 1..Len(options_data(q))}
    IN IF allow_multiple(q) THEN Arrangements(shown)
       ELSE IF shown = {} THEN {<<>>}
       ELSE {<<f>> : f \in shown}

OtherTextChoices(q) == IF other_option_present(q) THEN OtherTexts ELSE {<<>>}

-----------------------------------------------------------------------------
(* Actions. *)

Apply(r, ev) ==
    /\ messages' = r.messages
    /\ current_llm_question_data' = r.current_llm_question_data
    /\ assessment_phase_complete' = r.assessment_phase_complete
    /\ summary_generated' = r.summary_generated
    /\ summary_text' = r.summary_text
    /\ exception' = r.exception
    /\ call' = r.call
    /\ event' = ev
    /\ UNCHANGED OPENROUTER_API_KEY_SECRET

EventKinds == {"init", "rerun", "reset", "text", "options", "summary"}

Init ==
    /\ messages = <<>>
    /\ current_llm_question_data = None
    /\ assessment_phase_complete = FALSE
    /\ summary_generated = FALSE
    /\ summary_text = <<>>
    /\ OPENROUTER_API_KEY_SECRET \in BOOLEAN
    /\ exception = FALSE
    /\ event = [kind |-> "init"]
    /\ call = NoCall

\* The page is loaded or rerun with no widget input.
Rerun ==
    /\ event.kind \in EventKinds      \* from any page
    /\ \E up \in Upstream(Replies) : Apply(script(SS, NoEvent, up), NoEvent)

\* The sidebar button is on every page.
ClearChat ==
    /\ event.kind \in EventKinds      \* from any page
    /\ \E up \in Upstream(Replies) : Apply(clear_chat(up), [kind |-> "reset"])

SubmitText ==
    /\ TextInputRendered(SS)
    /\ Len(messages) + 2 <= MaxMsgs
    /\ \E prompt \in Prompts, up \in Upstream(Replies) :
         LET ev == [kind |-> "text", prompt |-> prompt]
         IN Apply(script(SS, ev, up), ev)

SubmitOptions ==
    /\ OptionsFormRendered(SS)
    /\ Len(messages) + 2 <= MaxMsgs
    /\ \E selections \in SelectionChoices(current_llm_question_data),
          other_text \in OtherTextChoices(current_llm_question_data),
          up \in Upstream(Replies) :
         LET ev == [kind |-> "options", selections |-> selections,
                    other_text |-> other_text]
         IN Apply(script(SS, ev, up), ev)

ClickGenerateSummary ==
    /\ SummaryButtonRendered(SS)
    /\ \E up \in Upstream(SummaryReplies) :
         LET ev == [kind |-> "summary"]
         IN Apply(script(SS, ev, up), ev)

Next ==
    \/ Rerun
    \/ ClearChat
    \/ SubmitText
    \/ SubmitOptions
    \/ ClickGenerateSummary

Spec == Init /\ [][Next]_vars

-----------------------------------------------------------------------------
(* The interpreter on its own: every reply text within the bound, processed *)
(* as the reply to a first answer.                                          *)

InterpTokens == {LBRACE, RBRACE, QT, IT_TEXT, IT_DISPLAY, WORD, SCALAR}

InterpBodies == UNION {[1..n -> InterpTokens] : n \in 0..MaxBody}

\* A body with or without a prose word before and after it; never empty.
InterpTexts ==
    {pre \o body \o post :
        pre \in {<<>>, <<WORD>>}, body \in InterpBodies, post \in {<<>>, <<WORD>>}}
    \ {<<>>}

FirstAnswer == <<"I am 42">>

InterpTranscript == <<Msg("assistant", QuestionText), Msg("user", FirstAnswer)>>

InitInterp ==
    /\ messages = InterpTranscript
    /\ current_llm_question_data = None
    /\ assessment_phase_complete = FALSE
    /\ summary_generated = FALSE
    /\ summary_text = <<>>
    /\ OPENROUTER_API_KEY_SECRET = TRUE
    /\ exception = FALSE
    /\ event = [kind |-> "awaiting"]
    /\ \E t \in InterpTexts :
         call = [kind |-> "turn", messages |-> TurnRequest(InterpTranscript),
                 pending |-> None, complete |-> FALSE,
                 result |-> [none |-> FALSE, text |-> t]]

\* The reply in flight arrives and is processed (lines 286-287).
InterpretReply ==
    /\ event.kind = "awaiting"
    /\ Apply(process_llm_response([SS EXCEPT !.call = call], call.result.text),
             [kind |-> "text", prompt |-> FirstAnswer])

NextInterp == InterpretReply

SpecInterp == InitInterp /\ [][NextInterp]_vars

-----------------------------------------------------------------------------
(* Vocabulary of the properties. *)

\* gathering = 0 < assessment_complete = 1 < summary_generated = 2
Phase ==
    IF summary_generated THEN 2
    ELSE IF assessment_phase_complete THEN 1
    ELSE 0

\* The last script run received a reply and handed it to process_llm_response.
Processed ==
    /\ event.kind \in {"rerun", "reset", "text", "options"}
    /\ call.kind \in {"greeting", "turn"}
    /\ Truthy(call.result)

\* The raw reply text of the last call.
Raw == call.result.text

\* The last script run appended a user answer and its call for the next
\* question failed (an error, or nothing usable came back).
SubmissionFailed ==
    /\ event.kind \in {"text", "options"}
    /\ call.kind = "turn"
    /\ ~Truthy(call.result)

Count(text, tok) == Cardinality({i \in 1..Len(text) : text[i] = tok})

\* s opens with a brace, closes with its matching brace.
Balanced(s) ==
    /\ Len(s) >= 2
    /\ s[1] = LBRACE
    /\ s[Len(s)] = RBRACE
    /\ Count(s, LBRACE) = Count(s, RBRACE)
    /\ \A k \in 1..(Len(s)-1) :
          Count(SubSeq(s, 1, k), LBRACE) > Count(SubSeq(s, 1, k), RBRACE)

HasBalancedSpan(text) ==
    \E i \in 1..Len(text) : \E j \in (i+1)..Len(text) : Balanced(SubSeq(text, i, j))

\* The text decodes to an object with both a question text and an input type.
WellFormedQuestion(text) ==
    /\ json_loads(text).ok
    /\ json_loads(text).dict
    /\ {"question_text", "input_type"} \subseteq DOMAIN json_loads(text).data

\* text[i..j] is a well-formed question object and all around it is prose,
\* with prose on at least one side.
EmbeddedAt(text, i, j) ==
    /\ i > 1 \/ j < Len(text)
    /\ WellFormedQuestion(SubSeq(text, i, j))
    /\ \A k \in 1..Len(text) : (k < i \/ k > j) => text[k] = WORD

IsEmbeddedQuestion(text) ==
    \E i \in 1..Len(text) : \E j \in (i+1)..Len(text) : EmbeddedAt(text, i, j)

EmbeddedObject(text) ==
    LET span == CHOOSE p \in (1..Len(text)) \X (1..Len(text)) :
                   p[1] < p[2] /\ EmbeddedAt(text, p[1], p[2])
    IN json_loads(SubSeq(text, span[1], span[2])).data

\* The text decodes to an object that lacks one of the two required fields.
LacksRequiredField(text) ==
    /\ json_loads(text).ok
    /\ json_loads(text).dict
    /\ ~({"question_text", "input_type"} \subseteq DOMAIN json_loads(text).data)

-----------------------------------------------------------------------------
(* Properties. *)

\* C1: across every operation other than the Clear Chat reset the phase
\* never decreases in the order gathering < assessment_complete <
\* summary_generated.
C1_PhaseMonotonic == [][event'.kind # "reset" => Phase' >= Phase]_vars

\* A summary request has moved the session to summary_generated.
C1_Witness == Phase = 2 /\ event.kind = "summary" /\ Truthy(call.result)

\* C2: after the call for a user answer failed during gathering, the page
\* offers an input through which a request can be issued again without a
\* reset.
C2_RetryableAfterFailure ==
    (SubmissionFailed /\ call.result.none /\ Phase = 0)
        => (TextInputRendered(SS) \/ OptionsFormRendered(SS))

\* Supporting C2: while gathering with a non-empty transcript and no pending
\* question, no step other than the reset issues any model call.
C2_StuckUntilReset ==
    [][(Phase = 0 /\ messages # <<>> /\ current_llm_question_data = None
          /\ event'.kind # "reset")
        => call'.kind = "none"]_vars

\* C3: when the call made after a text or options submission fails, the
\* phase is unchanged, the transcript is the old transcript plus the user's
\* message as last entry (no assistant message), and no question is pending.
C3_FailureKeepsAnswer ==
    [][SubmissionFailed' =>
         /\ Phase' = Phase
         /\ Len(messages') = Len(messages) + 1
         /\ SubSeq(messages', 1, Len(messages)) = messages
         /\ Last(messages').role = "user"
         /\ event'.kind = "text" => Last(messages').content = event'.prompt
         /\ event'.kind = "options" =>
               Last(messages').content =
                  user_response_full(current_llm_question_data,
                                     event'.selections, event'.other_text)
         /\ current_llm_question_data' = None]_vars

\* A submission whose call failed: the answer is last, nothing is pending.
C3_Witness ==
    /\ SubmissionFailed
    /\ call.result.none
    /\ Len(messages) >= 2
    /\ Last(messages).role = "user"
    /\ current_llm_question_data = None

\* C4: whenever a reply is processed, no exception escapes, a question is
\* pending and exactly one assistant message was appended.
C4_InterpreterTotal ==
    Processed =>
        /\ ~exception
        /\ current_llm_question_data # None
        /\ Len(messages) = Len(call.messages)
        /\ Last(messages).role = "assistant"

\* C5: a reply that decodes to an object lacking the question text or the
\* input type becomes a free-text question on the whole raw reply, and the
\* assistant entry is the whole raw reply.
C5_MissingFieldFallsBack ==
    (Processed /\ LacksRequiredField(Raw)) =>
        /\ current_llm_question_data = FallbackQuestion(Raw)
        /\ messages # <<>>
        /\ Last(messages) = Msg("assistant", Raw)

\* C6: a reply holding a well-formed question object with prose before
\* and/or after it makes exactly that object the pending question, and the
\* assistant entry is the object's question text only.
C6_EmbeddedObjectExtracted ==
    (Processed /\ IsEmbeddedQuestion(Raw)) =>
        /\ current_llm_question_data = EmbeddedObject(Raw)
        /\ messages # <<>>
        /\ Last(messages) = Msg("assistant", EmbeddedObject(Raw)["question_text"])

\* C7: a reply without a balanced {...} span becomes a free-text question
\* whose text is the raw reply, and the raw reply is appended verbatim as
\* the one new assistant message.
C7_NoSpanFallsBack ==
    (Processed /\ ~HasBalancedSpan(Raw)) =>
        /\ ~exception
        /\ current_llm_question_data = FallbackQuestion(Raw)
        /\ Len(messages) = Len(call.messages)
        /\ Last(messages) = Msg("assistant", Raw)

\* The truncated fragment { "question_text": ... was processed.
C7_Witness ==
    /\ Processed
    /\ Raw = <<LBRACE, QT>>
    /\ ~HasBalancedSpan(Raw)
    /\ current_llm_question_data["question_text"] = <<LBRACE, QT>>

\* C8: every message list sent to the model starts with a system entry and
\* holds no other one; the stored transcript holds none.
C8_OneSystemEntry ==
    /\ call.kind # "none" =>
          /\ call.messages # <<>>
          /\ call.messages[1].role = "system"
          /\ \A i \in 2..Len(call.messages) : call.messages[i].role # "system"
    /\ \A i \in 1..Len(messages) : messages[i].role # "system"

\* A per-turn request carrying a transcript of three messages was sent.
C8_Witness ==
    /\ call.kind = "turn"
    /\ Len(call.messages) >= 4
    /\ call.messages[1] = SystemMsg

\* C9: no greeting call and no per-turn call is issued while the
\* assessment-complete flag is set.
C9_NoQuestionCallWhenComplete ==
    call.kind \in {"greeting", "turn"} => ~call.complete

\* C10: a pending question of input type text_display_only implies the
\* phase is assessment_complete or summary_generated.
C10_TerminalImpliesComplete ==
    (/\ current_llm_question_data # None
     /\ current_llm_question_data["input_type"] = "text_display_only")
        => Phase >= 1

\* The closing question of the model is pending after a user's answer.
C10_Witness ==
    /\ current_llm_question_data # None
    /\ current_llm_question_data["input_type"] = "text_display_only"
    /\ Len(messages) >= 3
    /\ Last(messages).role = "assistant"


-----------------------------------------------------------------------------
(* Manual end. *)

\* The prompt holds the end marker in some letter case.
EndMarkerAnyCase(prompt) ==
    \E i \in 1..Len(prompt) :
        prompt[i] \in {"END ASSESSMENT", "end assessment", "End Assessment"}

\* The last script run took a text submission as a manual end.
ForcedEnd ==
    /\ event.kind = "text"
    /\ call.kind = "none"
    /\ assessment_phase_complete

\* The last script run sent a text submission to the model, in gathering.
NormalFlow ==
    /\ event.kind = "text"
    /\ call.kind = "turn"
    /\ ~call.complete
    /\ Last(call.messages) = Msg("user", event.prompt)

\* C11: a text submission holding the end marker, in any letter case, forces
\* the end exactly when the transcript held at least two turns (messages)
\* before it; below that it is appended and sent to the model as usual.
C11_ForcedIffTwoPriorTurns ==
    [][(event'.kind = "text" /\ EndMarkerAnyCase(event'.prompt)) =>
         IF Len(messages) >= 2 THEN ForcedEnd' ELSE NormalFlow']_vars

\* Supporting C11: the threshold of the code is three messages before the
\* submission (more than MIN_MESSAGES_FOR_END with it).
C11_ForcedIffThreePriorMessages ==
    [][(event'.kind = "text" /\ EndMarkerAnyCase(event'.prompt)) =>
         IF Len(messages) >= MIN_MESSAGES_FOR_END
         THEN ForcedEnd' ELSE NormalFlow']_vars

\* Supporting C11: a marker submitted on a transcript of exactly two
\* messages went to the model.
C11_TwoPriorRejected ==
    /\ NormalFlow
    /\ EndMarkerAnyCase(event.prompt)
    /\ Len(call.messages) = 4

\* C12 as claimed: on a manual end no model call is issued, the pending
\* question is a locally made terminal question, and the fixed closing
\* message is the one entry appended after the user's message.
C12_ForcedEndSynthesizesTerminal ==
    ForcedEnd =>
        /\ current_llm_question_data # None
        /\ current_llm_question_data["input_type"] = "text_display_only"
        /\ Len(messages) >= 2
        /\ Last(messages) = Msg("assistant", CLOSING_MESSAGE)
        /\ messages[Len(messages) - 1] = Msg("user", event.prompt)

\* C12 as amended: on a manual end no model call is issued, the completion
\* flag is set, no question is pending, and the transcript is the old one plus the user's message plus
\* the fixed closing assistant message.
C12_ForcedEndLocal ==
    [][(event'.kind = "text" /\ ContainsEndMarker(event'.prompt)
          /\ Len(messages) >= MIN_MESSAGES_FOR_END) =>
         /\ call'.kind = "none"
         /\ assessment_phase_complete'
         /\ current_llm_question_data' = None
         /\ messages' = messages \o << Msg("user", event'.prompt),
                                       Msg("assistant", CLOSING_MESSAGE) >>]_vars

\* A manual end was taken.
C12_Witness ==
    /\ ForcedEnd
    /\ ContainsEndMarker(event.prompt)
    /\ Last(messages) = Msg("assistant", CLOSING_MESSAGE)


-----------------------------------------------------------------------------
(* Summary. *)

\* C13: a failed summary request (an error or an empty result) leaves the
\* phase at assessment_complete, the summary text empty and the transcript
\* unchanged, with the summary button still offered; a successful one
\* moves the phase to summary_generated.
C13_SummaryFailureRetryable ==
    [][event'.kind = "summary" =>
         /\ call'.kind = "summary"
         /\ Phase = 1
         /\ IF Truthy(call'.result)
            THEN Phase' = 2
            ELSE /\ Phase' = 1
                 /\ summary_text' = <<>>
                 /\ messages' = messages
                 /\ SummaryButtonRendered(SS)']_vars

\* A summary request failed and the button is still offered.
C13_Witness ==
    /\ event.kind = "summary"
    /\ call.kind = "summary"
    /\ ~Truthy(call.result)
    /\ Phase = 1
    /\ SummaryButtonRendered(SS)

\* C14: once summary_generated is set, no step other than the reset changes
\* the stored summary text or issues another summary request; and the text
\* stored by a successful request is the text the model returned.
C14_SummaryOnceImmutable ==
    [][/\ (summary_generated /\ event'.kind # "reset") =>
            /\ summary_text' = summary_text
            /\ summary_generated'
            /\ call'.kind # "summary"
       /\ (event'.kind = "summary" /\ Truthy(call'.result)) =>
            summary_text' = call'.result.text]_vars

\* The summary is stored and a later interaction found it unchanged.
C14_Witness ==
    /\ summary_generated
    /\ summary_text # <<>>
    /\ event.kind = "rerun"


-----------------------------------------------------------------------------
(* Options answers. *)

\* One of the selected options is the 'Other (please specify)' option.
OtherSelected(selections) ==
    \E i \in 1..Len(selections) : ContainsOtherSpecify(selections[i])

Holds(text, tok) == \E i \in 1..Len(text) : text[i] = tok

\* The user entry the last options submission put into the transcript: the
\* last entry of the request it sent.
SubmittedEntry == Last(call.messages)

\* C15: an options submission with 'Other' selected and the free-text field
\* empty is recorded as a user entry that holds the 'unspecified' marker and
\* not the bare option label.
C15_OtherUnspecifiedMarked ==
    (/\ event.kind = "options"
     /\ OtherSelected(event.selections)
     /\ event.other_text = <<>>)
        => /\ call.kind = "turn"
           /\ SubmittedEntry.role = "user"
           /\ Holds(SubmittedEntry.content, UNSPECIFIED_MARKER)
           /\ ~Holds(SubmittedEntry.content, "Other (please specify)")

\* Free texts the entry with an empty field is compared against.
ProbeTexts ==
    { <<"Tingling">>, <<"Aching">>, <<"(please specify)">>,
      <<"Other (please specify)">>, <<"Other:">> }

\* C16: for a submission with 'Other' among the selections, the entry
\* recorded differs from the entry the same selections give with the
\* free-text field in the other condition (empty against every non-empty
\* text, non-empty against empty).
C16_OtherTextDistinct ==
    [][(event'.kind = "options" /\ OtherSelected(event'.selections)) =>
         LET q == current_llm_question_data
             sel == event'.selections
             entry == Last(call'.messages).content
         IN /\ entry = user_response_full(q, sel, event'.other_text)
            /\ IF event'.other_text = <<>>
               THEN \A t \in ProbeTexts : user_response_full(q, sel, t) # entry
               ELSE user_response_full(q, sel, <<>>) # entry]_vars

\* 'Other' and a second option were selected and a free text was typed.
C16_Witness ==
    /\ event.kind = "options"
    /\ OtherSelected(event.selections)
    /\ Len(event.selections) = 2
    /\ event.other_text # <<>>
    /\ Holds(SubmittedEntry.content, "Other:")


-----------------------------------------------------------------------------
(* Order of effects and shape of the transcript. *)

\* C17: a submission (text or options) that issues a request has, at the
\* time of the call, already appended the user message and cleared the
\* pending question: the request is the system prompt, the old transcript
\* and the submitted message as last entry, sent while nothing is pending.
C17_AppendClearThenCall ==
    [][(event'.kind \in {"text", "options"} /\ call'.kind # "none") =>
         LET content == IF event'.kind = "text" THEN event'.prompt
                        ELSE user_response_full(current_llm_question_data,
                                 event'.selections, event'.other_text)
         IN /\ call'.kind = "turn"
            /\ call'.pending = None
            /\ call'.messages = <<SystemMsg>> \o messages \o <<Msg("user", content)>>]_vars

\* An options answer was sent with nothing pending while a reply came back.
C17_Witness ==
    /\ event.kind = "options"
    /\ call.kind = "turn"
    /\ call.pending = None
    /\ Last(call.messages).role = "user"
    /\ Truthy(call.result)
    /\ current_llm_question_data # None

\* C18: every step other than the reset keeps the existing transcript
\* entries, in order, as a prefix of the new transcript; a summary request
\* adds no entry.
C18_TranscriptAppendOnly ==
    [][event'.kind # "reset" =>
         /\ Len(messages') >= Len(messages)
         /\ SubSeq(messages', 1, Len(messages)) = messages
         /\ event'.kind = "summary" => messages' = messages]_vars

\* The transcript has grown to four entries or more and a summary was made.
C18_Witness ==
    /\ Len(messages) >= 4
    /\ event.kind = "summary"
    /\ summary_generated


-----------------------------------------------------------------------------
(* Input affordance and turn order. *)

\* C19: while gathering with a question pending (and a transcript on the
\* page), the page offers the text input or the options form.
C19_PendingQuestionAnswerable ==
    (/\ Phase = 0
     /\ messages # <<>>
     /\ current_llm_question_data # None
     /\ "question_text" \in DOMAIN current_llm_question_data)
        => (TextInputRendered(SS) \/ OptionsFormRendered(SS))

\* Supporting C19: a well-formed question of a type the script does not
\* render is pending in gathering, and no step but the reset issues a call
\* from there.
C19_StuckOnUnknownType ==
    [][(/\ Phase = 0
        /\ messages # <<>>
        /\ current_llm_question_data = ObjectOf(<<QT, IT_NUMBER>>)
        /\ event'.kind # "reset")
       => (call'.kind = "none" /\ messages' = messages)]_vars

\* Roles alternate from an assistant message on.
Alternates(msgs) ==
    /\ msgs # <<>> => msgs[1].role = "assistant"
    /\ \A i \in 1..(Len(msgs) - 1) : msgs[i].role # msgs[i+1].role

\* C20: the transcript, when not empty, starts with an assistant message
\* and never holds two consecutive messages of the same role.
C20_RolesAlternate == Alternates(messages)

\* C21: in every reachable state summary_generated is set only if
\* assessment_phase_complete is set, and the stored summary text is
\* non-empty exactly when summary_generated is set.
C21_SummaryFlagsConsistent ==
    /\ summary_generated => assessment_phase_complete
    /\ (summary_text # <<>>) <=> summary_generated

\* A summary request succeeded: the text it returned is stored, the
\* summary flag is set and the assessment is complete.
C21_Witness ==
    /\ event.kind = "summary"
    /\ call.kind = "summary"
    /\ Truthy(call.result)
    /\ summary_generated
    /\ assessment_phase_complete
    /\ summary_text = call.result.text

\* A failed summary request leaves the summary flag clear and the text empty.
C21_WitnessFailed ==
    /\ event.kind = "summary"
    /\ ~Truthy(call.result)
    /\ ~summary_generated
    /\ summary_text = <<>>

====
